---- MODULE Spec2Model ----
(***************************************************************************)
(* The peer diagnostics layer of tubertc (DebugConsole): the transaction   *)
(* registry (_txid, _transactionMap), the inbound dispatcher               *)
(* (DebugConsole.Listener.handlePeerMessage) and the two public entry      *)
(* points of DebugConsole.Client (getP2PDiagnosticForPeerId,               *)
(* getP2PDiagnostics), and beside it the chat panel (Chat): its peer       *)
(* message handler, its participants and their colors, its text entry;     *)
(* and the buttons of the navigation bar (NavBar, StatefulButton).         *)
(* JavaScript runs one event at a time, so every handler is one atomic     *)
(* action.                                                                 *)
(***************************************************************************)
EXTENDS Integers, Sequences, FiniteSets, TLC

\* ------------------------------------------------------------------ bounds
\* No more than MaxTxid transaction ids are allocated in one run.
MaxTxid == 2
\* No more than MaxAggs calls of getP2PDiagnostics that pass a callback.
MaxAggs == 2
\* No more than MaxCalls responses are resolved to a callback in one run.
MaxCalls == 2

\* ------------------------------------------------------------- the universe
\* The local peer (client.getId()) and the remote peers.
LocalId == "A"
OtherPeers == {"B", "C"}

\* A JavaScript argument that was not passed (=== undefined).
Undefined == "undefined"

\* The JavaScript value null.
Null == "null"

\* The functions a caller passes as completionFn: one that returns and one
\* that raises an exception whenever it is invoked.
UserFns == {"onResult", "onResultRaises"}

\* Whether invoking a caller's function raises.
Raises(fn) == fn = "onResultRaises"

\* client.getConnectStatus(peerId): the transport's view of one peer.
getConnectStatus(peerId) ==
    IF peerId = "B" THEN "is connected"
    ELSE IF peerId = "C" THEN "not connected"
    ELSE "connection in progress to us."

\* The value of content.data when the field is absent.
NoData == [myPeerId |-> "", data |-> [q \in {} |-> ""]]

\* What a remote peer p answers to a probe: its own id and its statuses.
RemoteStatus(p) == [myPeerId |-> p, data |-> [q \in {LocalId} |-> "is connected"]]
Payloads == {RemoteStatus(p) : p \in OtherPeers}

\* A peer message's content as the dispatcher reads it: nil is a null or
\* undefined content; opType and idType are the results of typeof.
Envelope(opType, opcode, idType, id, hasData, data) ==
    [nil |-> FALSE, opType |-> opType, opcode |-> opcode, idType |-> idType,
     id |-> id, hasData |-> hasData, data |-> data]
NullContent ==
    [nil |-> TRUE, opType |-> "undefined", opcode |-> "", idType |-> "undefined",
     id |-> 0, hasData |-> FALSE, data |-> NoData]

\* The ids an inbound response may carry: every id that can be allocated and
\* one that never is.
EnvelopeIds == 0..MaxTxid

\* The ids an inbound probe may carry: the remote peer's own numbering.
ProbeIds == {0, MaxTxid}

\* The contents the dispatcher only logs, by the claim of the design: a
\* missing or non-string opcode, an unknown opcode, a probe or a response
\* whose id is missing or not a number, a response without data.
Malformed ==
    {Envelope(t, "", "number", 0, TRUE, RemoteStatus("B")) : t \in {"undefined", "number"}}
    \cup {Envelope("string", "mic-control", "number", 0, TRUE, RemoteStatus("B")),
          Envelope("string", "testP2PConnection", "undefined", 0, FALSE, NoData),
          Envelope("string", "response", "string", 0, TRUE, RemoteStatus("B")),
          Envelope("string", "response", "number", 0, FALSE, NoData)}

\* The well-formed probes.
Probes == {Envelope("string", "testP2PConnection", "number", i, FALSE, NoData) : i \in ProbeIds}

\* The well-formed responses a peer p sends: its own status under any id.
Responses(p) ==
    {Envelope("string", "response", "number", i, TRUE, RemoteStatus(p)) : i \in EnvelopeIds}

\* What the untrusted channel may deliver, <<sender, content>>: an absent
\* content, a malformed one, a probe, a response.
Inbound ==
    {<<"B", c>> : c \in {NullContent} \cup Malformed}
    \cup {<<p, c>> : p \in OtherPeers, c \in Probes}
    \cup UNION {{<<p, c>> : c \in Responses(p)} : p \in OtherPeers}

\* The arguments getP2PDiagnosticForPeerId is called with: a peer and a
\* function, or a call that leaves one of them or both out.
ProbeArgs ==
    {<<"B", "onResult">>, <<"C", "onResultRaises">>,
     <<Undefined, "onResult">>, <<"B", Undefined>>, <<Undefined, Undefined>>}

\* ------------------------------------------------------------------- state
VARIABLES
    _txid,            \* DebugConsole._txid
    _transactionMap,  \* DebugConsole._transactionMap: id -> registered callback
    roomList,         \* Object.keys(_vtcObj.roomList), in insertion order
    aggs,             \* one closure (completionFn, roomSize, results) per getP2PDiagnostics call,
                      \* with the room list it read (roomAtCall) and its targets (roomList)
    txlog,            \* history: the transactions issued, [id, peer, cb, registeredAtSend], in order
    calls,            \* history: the callbacks the dispatcher invoked, [peer, env, cb, arg]
    done,             \* history: the completionFn invocations of aggregates, [agg, arg]
    throws,           \* how many invocations of a caller's function raised so far
    sent,             \* the messages the last event handed to client.sendPeerMessage
    last,             \* the last event: its operation, arguments and outcome
    chatPeerId,       \* Chat.peerId: null until initialize
    _peerIdMap,       \* Chat's _peerIdMap: peer id -> user name
    peerColorMap,     \* Chat.peerColorMap: peer id -> color
    colorsUsed,       \* Chat.colorsUsed: the colors handed out, in order
    _lastPeerIdMessage, \* the peer whose message was appended last, or null
    _lastCommand,     \* the last message that was a chat command, or null
    appended,         \* the lines the last event appended to the chat history pane
    delegated,        \* the calls the last event made to ChatCommands and sendMessageFn
    generated,        \* the calls of _generateUniqueColor the last event made
    present,          \* history: the peers userEntered was called for and userLeft was
                      \* not called for since
    chatTextEntry,    \* the text of the chat text entry
    navBar,           \* NavBar's buttons by field name: empty until NavBar.initialize
    presses,          \* history: per stateful button, its initial state and the number k
                      \* of toggles and clicks since
    navEvent          \* the last navigation bar event: its operation, the button, the
                      \* handlers it invoked and the lines it wrote with ErrorMetric.log

\* The state of the DebugConsole and the record of its last event.
diagVars == <<_txid, _transactionMap, roomList, aggs, txlog, calls, done, throws, sent, last>>

\* The state of the navigation bar.
navVars == <<navBar, presses, navEvent>>

\* The state of the Chat instance.
chatVars == <<chatPeerId, _peerIdMap, peerColorMap, colorsUsed, _lastPeerIdMessage,
              _lastCommand, appended, delegated, generated, present, chatTextEntry>>

vars == <<_txid, _transactionMap, roomList, aggs, txlog, calls, done, throws, sent, last,
          chatVars, navVars>>

\* The callbacks stored in the registry: a caller's function registered by
\* getP2PDiagnosticForPeerId, or the appendDataFn closure of aggregate agg.
UserCb(fn) == [kind |-> "user", fn |-> fn, agg |-> 0]
AppendCb(k) == [kind |-> "append", fn |-> "", agg |-> k]

\* The record of an event: the operation that ran, its arguments (the peer id,
\* the function and the content it was called with), what it returned
\* ("undefined", the failure signal "false", or "threw" when an exception left
\* it) and the line it wrote with ErrorMetric.log ("" when none).
Event(op, peerId, fn, content, ret, log) ==
    [op |-> op, peerId |-> peerId, fn |-> fn, content |-> content, ret |-> ret, log |-> log]

\* A message handed to client.sendPeerMessage({rtcId: to}, 'debug', content).
Msg(to, content) == [rtcId |-> to, type |-> "debug", content |-> content]

Init ==
    /\ _txid = 0
    /\ _transactionMap = [i \in {} |-> UserCb("")]
    /\ roomList = <<LocalId>>
    /\ aggs = <<>>
    /\ txlog = <<>>
    /\ calls = <<>>
    /\ done = <<>>
    /\ throws = 0
    /\ sent = <<>>
    /\ last = Event("init", Undefined, Undefined, NullContent, "undefined", "")
    /\ chatPeerId = Null
    /\ _peerIdMap = [p \in {} |-> ""]
    /\ peerColorMap = [p \in {} |-> ""]
    /\ colorsUsed = <<>>
    /\ _lastPeerIdMessage = Null
    /\ _lastCommand = Null
    /\ appended = <<>>
    /\ delegated = <<>>
    /\ generated = <<>>
    /\ present = {}
    /\ chatTextEntry = ""
    /\ navBar = [n \in {} |-> Null]
    /\ presses = [n \in {} |-> 0]
    /\ navEvent = [op |-> "init", id |-> Null, invoked |-> <<>>, log |-> <<>>]

\* ------------------------------------------------------------- the registry
\* _getTxid that hands out the same id every time.
GetTxid_Reused(t) == [ret |-> 0, txid |-> t + 1]

\* _getTxid without the increment.
GetTxid_Stuck(t) == [ret |-> t, txid |-> t]

\* _getTxid: return this._txid++ (the value returned and the new counter).
_getTxid(t) == [ret |-> t, txid |-> t + 1]

\* _registerTransaction: this._transactionMap[id] = completionFn.
_registerTransaction(map, id, completionFn) ==
    [i \in DOMAIN map \cup {id} |-> IF i = id THEN completionFn ELSE map[i]]

\* What reading an absent key of _transactionMap yields (undefined).
NoTransaction == [kind |-> "undefined", fn |-> "", agg |-> 0]

\* A lookup that takes the oldest pending transaction, whatever the id.
TransactionFor_Oldest(map, id) ==
    IF id \in DOMAIN map
    THEN map[CHOOSE i \in DOMAIN map : \A j \in DOMAIN map : i <= j]
    ELSE NoTransaction

\* A lookup that falls back to the oldest pending transaction for an id that
\* is not registered.
TransactionFor_Fallback(map, id) ==
    IF id \in DOMAIN map THEN map[id]
    ELSE IF DOMAIN map # {}
    THEN map[CHOOSE i \in DOMAIN map : \A j \in DOMAIN map : i <= j]
    ELSE NoTransaction

\* var transaction = DebugConsole._transactionMap[content.id]
TransactionFor(map, id) == IF id \in DOMAIN map THEN map[id] ELSE NoTransaction

\* A delete that also removes every older transaction.
DeleteTransaction_Older(map, id) == [i \in {j \in DOMAIN map : j > id} |-> map[i]]

\* A delete that removes nothing.
DeleteTransaction_Keep(map, id) == map

\* A delete that empties the registry.
DeleteTransaction_All(map, id) == [i \in {} |-> map[i]]

\* delete DebugConsole._transactionMap[content.id]
DeleteTransaction(map, id) == [i \in DOMAIN map \ {id} |-> map[i]]

\* _getRoomUserList: Object.keys(this._vtcObj.roomList).
_getRoomUserList == roomList

\* client.getId(): the local peer's identifier.
getId == LocalId

\* The elements of a sequence.
Range(seq) == {seq[i] : i \in DOMAIN seq}

\* -------------------------------------------------------------- the client
\* A usage check that forgets the peer id.
MissingArgs_CallbackOnly(peerId, completionFn) == completionFn = Undefined

\* The usage check of getP2PDiagnosticForPeerId:
\* peerId === undefined || completionFn === undefined.
MissingArgs(peerId, completionFn) == peerId = Undefined \/ completionFn = Undefined

\* The probe a client sends: {opcode: 'testP2PConnection', id: txid}.
ProbeContent(id) == Envelope("string", "testP2PConnection", "number", id, FALSE, NoData)

\* getP2PDiagnosticForPeerId past its usage check, on s = [txid, map, sent,
\* txlog]: allocate an id, send the probe, register the callback, in that
\* order.  registeredAtSend: whether the id was in the registry at the moment
\* the probe was handed to client.sendPeerMessage.
IssueProbe(s, peerId, completionFn) ==
    LET t == _getTxid(s.txid)
        mapAtSend == s.map
        afterSend == Append(s.sent, Msg(peerId, ProbeContent(t.ret)))
        afterRegister == _registerTransaction(mapAtSend, t.ret, completionFn) IN
    [txid |-> t.txid,
     sent |-> afterSend,
     map |-> afterRegister,
     txlog |-> Append(s.txlog, [id |-> t.ret, peer |-> peerId, cb |-> completionFn,
                                registeredAtSend |-> t.ret \in DOMAIN mapAtSend])]

getP2PDiagnosticForPeerId(peerId, completionFn) ==
    IF MissingArgs(peerId, completionFn)
    THEN /\ last' = Event("getP2PDiagnosticForPeerId", peerId, completionFn, NullContent, "false", "")
         /\ sent' = <<>>
         /\ UNCHANGED <<_txid, _transactionMap, roomList, aggs, txlog, calls, done, throws,
                       chatVars, navVars>>
    ELSE LET s == IssueProbe([txid |-> _txid, map |-> _transactionMap, sent |-> <<>>, txlog |-> txlog],
                             peerId, UserCb(completionFn)) IN
         /\ _txid < MaxTxid
         /\ _txid' = s.txid
         /\ _transactionMap' = s.map
         /\ sent' = s.sent
         /\ txlog' = s.txlog
         /\ last' = Event("getP2PDiagnosticForPeerId", peerId, completionFn, NullContent, "undefined", "")
         /\ UNCHANGED <<roomList, aggs, calls, done, throws, chatVars, navVars>>

\* A target list that keeps the local peer.
Targets_WithSelf(list, myId) == list

\* The target list of getP2PDiagnostics: the room list without myId.
Targets(list, myId) == SelectSeq(list, LAMBDA elem : elem # myId)

\* The loop of getP2PDiagnostics: one getP2PDiagnosticForPeerId per target,
\* in the order of the list (its usage check passes: both arguments are set).
RECURSIVE IssueAll(_, _, _)
IssueAll(s, targets, cb) ==
    IF targets = <<>> THEN s
    ELSE IssueAll(IssueProbe(s, Head(targets), cb), Tail(targets), cb)

getP2PDiagnostics(completionFn) ==
    IF completionFn = Undefined
    THEN /\ last' = Event("getP2PDiagnostics", Undefined, completionFn, NullContent, "false", "")
         /\ sent' = <<>>
         /\ UNCHANGED <<_txid, _transactionMap, roomList, aggs, txlog, calls, done, throws,
                       chatVars, navVars>>
    ELSE LET myId == getId
             targets == Targets(_getRoomUserList, myId)
             k == Len(aggs) + 1
             s == IssueAll([txid |-> _txid, map |-> _transactionMap, sent |-> <<>>, txlog |-> txlog],
                           targets, AppendCb(k)) IN
         /\ Len(aggs) < MaxAggs
         /\ _txid + Len(targets) <= MaxTxid
         /\ aggs' = Append(aggs, [completionFn |-> completionFn, roomSize |-> Len(targets),
                                  results |-> <<>>, roomList |-> targets,
                                  roomAtCall |-> _getRoomUserList])
         /\ _txid' = s.txid
         /\ _transactionMap' = s.map
         /\ sent' = s.sent
         /\ txlog' = s.txlog
         /\ last' = Event("getP2PDiagnostics", Undefined, completionFn, NullContent, "undefined", "")
         /\ UNCHANGED <<roomList, calls, done, throws, chatVars, navVars>>

\* ---------------------------------------------------------- the dispatcher
\* The probe branch's test: opcode === 'testP2PConnection' && typeof id === 'number'.
IsProbe(content) == content.opcode = "testP2PConnection" /\ content.idType = "number"

\* The response branch's test: opcode === 'response' && data !== undefined &&
\* typeof id === 'number'.
IsResponse(content) ==
    content.opcode = "response" /\ content.hasData /\ content.idType = "number"

\* Keys for every known peer, in the room or not.
StatusKeys_AllPeers(list, myId, peerId) == OtherPeers

\* Keys that keep the local peer.
StatusKeys_WithSelf(list, myId, peerId) == Range(list)

\* The keys of roomConnectStatus.data: every roomList[i] !== client.getId().
StatusKeys(list, myId, peerId) == Range(list) \ {myId}

\* roomConnectStatus: {myPeerId: client.getId(), data: {peer: status}}.
RoomConnectStatus(list, myId, peerId) ==
    [myPeerId |-> myId,
     data |-> [q \in StatusKeys(list, myId, peerId) |-> getConnectStatus(q)]]

\* A reply that numbers its responses itself instead of echoing the probe's id.
ReplyMsg_OwnId(peerId, content, status) ==
    Msg(peerId, Envelope("string", "response", "number", 0, TRUE, status))

\* The reply to a probe: sendPeerMessage({rtcId: peerId}, 'debug',
\* {id: content.id, opcode: 'response', data: roomConnectStatus}).
ReplyMsg(peerId, content, status) ==
    Msg(peerId, Envelope("string", "response", "number", content.id, TRUE, status))

\* The argument the dispatcher passes to the callback: content.data.
CallbackArg(content) == content.data

\* A test that is satisfied by the first reply.
AllReplied_Early(results, roomSize) == Len(results) >= 1

\* appendDataFn's test: results.length === roomSize.
AllReplied(results, roomSize) == Len(results) = roomSize

\* One results array shared by every call of getP2PDiagnostics.
Accumulator_Shared(k) == 1

\* var results = []: the array appendDataFn of call k pushes to is the one
\* created by that call.
Accumulator(k) == k

\* appendDataFn(data) of aggregate k: push, then completionFn(results) when
\* all replies are in.  raised: whether the call ended in an exception.
AppendData(k, data) ==
    LET r == Append(aggs[Accumulator(k)].results, data)
        full == AllReplied(r, aggs[k].roomSize) IN
    [aggs |-> [aggs EXCEPT ![Accumulator(k)].results = r],
     done |-> IF full THEN Append(done, [agg |-> k, fn |-> aggs[k].completionFn, arg |-> r])
              ELSE done,
     raised |-> full /\ Raises(aggs[k].completionFn)]

\* transaction(content.data).
Invoke(transaction, data) ==
    IF transaction.kind = "append" THEN AppendData(transaction.agg, data)
    ELSE [aggs |-> aggs, done |-> done, raised |-> Raises(transaction.fn)]

\* An inbound message that only writes to the log (or raises before it can).
Dropped(peerId, content, ret, log) ==
    /\ last' = Event("handlePeerMessage", peerId, Undefined, content, ret, log)
    /\ sent' = <<>>
    /\ UNCHANGED <<_txid, _transactionMap, roomList, aggs, txlog, calls, done, throws,
                       chatVars, navVars>>

\* DebugConsole.Listener.handlePeerMessage(client, peerId, content).
handlePeerMessage(peerId, content) ==
    IF content.nil
    THEN \* typeof content.opcode on null or undefined raises a TypeError
         Dropped(peerId, content, "threw", "")
    ELSE IF content.opType = "string"
    THEN IF IsProbe(content)
         THEN /\ sent' = <<ReplyMsg(peerId, content,
                                    RoomConnectStatus(_getRoomUserList, getId, peerId))>>
              /\ last' = Event("handlePeerMessage", peerId, Undefined, content, "undefined",
                               "request handled")
              /\ UNCHANGED <<_txid, _transactionMap, roomList, aggs, txlog, calls, done, throws,
                       chatVars, navVars>>
         ELSE IF IsResponse(content)
         THEN LET transaction == TransactionFor(_transactionMap, content.id) IN
              IF transaction # NoTransaction
              THEN LET r == Invoke(transaction, CallbackArg(content)) IN
                   /\ Len(calls) < MaxCalls
                   /\ calls' = Append(calls, [peer |-> peerId,
                                              env |-> [id |-> content.id, data |-> content.data],
                                              cb |-> transaction,
                                              arg |-> CallbackArg(content)])
                   /\ aggs' = r.aggs
                   /\ done' = r.done
                   /\ throws' = IF r.raised THEN throws + 1 ELSE throws
                   \* an exception leaves the handler before the delete
                   /\ _transactionMap' = IF r.raised THEN _transactionMap
                                         ELSE DeleteTransaction(_transactionMap, content.id)
                   /\ sent' = <<>>
                   /\ last' = Event("handlePeerMessage", peerId, Undefined, content,
                                    IF r.raised THEN "threw" ELSE "undefined", "")
                   /\ UNCHANGED <<_txid, roomList, txlog, chatVars, navVars>>
              ELSE Dropped(peerId, content, "undefined", "invalid id")
         ELSE Dropped(peerId, content, "undefined", "unsupported opcode")
    ELSE Dropped(peerId, content, "undefined", "opcode is of the wrong type")

\* ------------------------------------------------------------ the transport
\* A peer enters the room: a new key of _vtcObj.roomList.
roomJoin(p) ==
    /\ p \notin Range(roomList)
    /\ roomList' = Append(roomList, p)
    /\ sent' = <<>>
    /\ last' = Event("roomJoin", p, Undefined, NullContent, "undefined", "")
    /\ UNCHANGED <<_txid, _transactionMap, aggs, txlog, calls, done, throws, chatVars, navVars>>

\* A peer leaves the room: its key is removed.
roomLeave(p) ==
    /\ p \in Range(roomList)
    /\ roomList' = SelectSeq(roomList, LAMBDA e : e # p)
    /\ sent' = <<>>
    /\ last' = Event("roomLeave", p, Undefined, NullContent, "undefined", "")
    /\ UNCHANGED <<_txid, _transactionMap, aggs, txlog, calls, done, throws, chatVars, navVars>>

\* ------------------------------------------------------- the specification
Next ==
    \/ \E a \in ProbeArgs : getP2PDiagnosticForPeerId(a[1], a[2])
    \/ \E fn \in UserFns \cup {Undefined} : getP2PDiagnostics(fn)
    \/ \E m \in Inbound : handlePeerMessage(m[1], m[2])
    \/ \E p \in OtherPeers : roomJoin(p)
    \/ \E p \in OtherPeers : roomLeave(p)

Spec == Init /\ [][Next]_vars

\* ---------------------------------------------------- a reliable transport
\* The peer a transaction's probe was sent to.
ProbePeer(t) == txlog[CHOOSE i \in DOMAIN txlog : txlog[i].id = t].peer

\* The transport delivers the probe with id t to its peer, the peer answers
\* with its own status under the same id, and the transport hands that reply
\* to the dispatcher: once for every probe.
Reply(t) ==
    /\ \E i \in DOMAIN txlog : txlog[i].id = t
    /\ \A i \in DOMAIN calls : calls[i].env.id # t
    /\ handlePeerMessage(ProbePeer(t),
                         Envelope("string", "response", "number", t, TRUE,
                                  RemoteStatus(ProbePeer(t))))

\* The client's calls and the room's changes over a transport that loses,
\* duplicates and forges nothing.
NextLive ==
    \/ \E a \in ProbeArgs : getP2PDiagnosticForPeerId(a[1], a[2])
    \/ \E fn \in UserFns \cup {Undefined} : getP2PDiagnostics(fn)
    \/ \E t \in 0..(MaxTxid - 1) : Reply(t)
    \/ \E p \in OtherPeers : roomJoin(p)
    \/ \E p \in OtherPeers : roomLeave(p)

\* Every probe is eventually answered and every reply eventually dispatched.
SpecLive ==
    /\ Init
    /\ [][NextLive]_vars
    /\ \A t \in 0..(MaxTxid - 1) : WF_vars(Reply(t))

\* ------------------------------------------------------------------ the chat
\* Every peer of the room, and the user name each one goes by.
Peers == {LocalId} \cup OtherPeers
UserName(p) == <<"user", p>>

\* getRandomColor(): the colors a draw can produce; the color returned when
\* no unique one was found.
Colors == {"hsl(0, 100%, 25%)", "hsl(24, 100%, 25%)", "hsl(48, 100%, 25%)"}
Black == "hsl(0, 0%, 0%, 1)"

\* var tries = 5 in _generateUniqueColor.
Tries == 5

\* obj[key] of a JavaScript object used as a map: undefined for an absent key.
Get(map, key) == IF key \in DOMAIN map THEN map[key] ELSE Undefined

\* obj[key] = value.
Put(map, key, value) == [k \in DOMAIN map \cup {key} |-> IF k = key THEN value ELSE map[k]]

\* delete obj[key].
Delete(map, key) == [k \in DOMAIN map \ {key} |-> map[k]]

\* array.indexOf(x), from 1; 0 when x is not an element (-1 in JavaScript).
IndexOf(seq, x) ==
    IF x \in Range(seq) THEN CHOOSE i \in DOMAIN seq : seq[i] = x /\ \A j \in 1..(i - 1) : seq[j] # x
    ELSE 0

\* array.splice(idx, 1).
Splice(seq, idx) == SubSeq(seq, 1, idx - 1) \o SubSeq(seq, idx + 1, Len(seq))

\* A rendered line of the chat history: the template and what it was given.
ChatLine(tmpl, id, user, color, msg) ==
    [tmpl |-> tmpl, id |-> id, user |-> user, color |-> color, msg |-> msg]

\* A call of a ChatCommands function.
CommandCall(callee, cmd, peerId, cmdData) ==
    [callee |-> callee, cmd |-> cmd, peerId |-> peerId, cmdData |-> cmdData]

\* The messages a peer types, and the one ChatCommands.handleCommand accepts
\* as a chat command.
Messages == {"hello", "/help"}
IsCommand(message) == message = "/help"

\* The Chat instance as an event finds it: its fields and its text entry, and
\* nothing appended, delegated, generated or logged by the event yet.
ChatNow ==
    [peerId |-> chatPeerId, peerIdMap |-> _peerIdMap, peerColorMap |-> peerColorMap,
     colorsUsed |-> colorsUsed, lastPeerIdMessage |-> _lastPeerIdMessage,
     lastCommand |-> _lastCommand, appended |-> <<>>, delegated |-> <<>>, log |-> "",
     generated |-> <<>>, present |-> present, text |-> chatTextEntry]

\* _appendLine(content).
_appendLine(c, content) == [c EXCEPT !.appended = Append(@, content)]

\* The loop of _generateUniqueColor when the draw before its test can have
\* produced any hsvColor of drawn: it ends with a color that is not in use or
\* with no tries left, and draws again, any color, otherwise.  The result
\* is every value of hsvColor and tries the loop can end in.
RECURSIVE DrawUntilUnique(_, _, _)
DrawUntilUnique(used, drawn, tries) ==
    LET again == {hsvColor \in drawn : IndexOf(used, hsvColor) > 0 /\ tries > 0} IN
    {[hsvColor |-> hsvColor, tries |-> tries] : hsvColor \in drawn \ again}
        \cup (IF again # {} THEN DrawUntilUnique(used, Colors, tries - 1) ELSE {})

\* A draw that is taken as it comes, whether the color is in use or not.
Draws_Unchecked(used) == {[hsvColor |-> hsvColor, tries |-> Tries] : hsvColor \in Colors}

\* var tries = 5; var hsvColor = getRandomColor(); and the loop.
Draws(used) == DrawUntilUnique(used, Colors, Tries)

\* The record of a call of _generateUniqueColor: the peer, the color and the
\* tries its loop ended with, and the color it returned.
Generated(peerId, d, ret) ==
    [peerId |-> peerId, hsvColor |-> d.hsvColor, tries |-> d.tries, ret |-> ret]

\* _generateUniqueColor(peerId) when its draws end in d: the Chat after it,
\* and the color returned.
_generateUniqueColor(c, peerId, d) ==
    IF d.tries = 0
    THEN [c |-> [c EXCEPT !.log = "Could not generate random color",
                          !.generated = Append(@, Generated(peerId, d, Black))],
          ret |-> Black]
    ELSE [c |-> [c EXCEPT !.peerColorMap = Put(@, peerId, d.hsvColor),
                          !.colorsUsed = Append(@, d.hsvColor),
                          !.generated = Append(@, Generated(peerId, d, d.hsvColor))],
          ret |-> d.hsvColor]

\* userEntered(peerId, userName).  The desktop notification of _notify is
\* outside the Chat's state.
userEntered(c, peerId, userName, d) ==
    IF c.peerId # Null
    THEN LET g == _generateUniqueColor(c, peerId, d)
             named == [g.c EXCEPT !.peerIdMap = Put(@, peerId, userName),
                                  !.present = @ \cup {peerId}] IN
         _appendLine(named, ChatLine("userEntered", peerId, userName, g.ret, ""))
    ELSE [c EXCEPT !.log = "userEnter invoked without Chat.userName"]

\* userLeft(peerId).
userLeft(c, peerId) ==
    IF c.peerId # Null
    THEN LET userName == Get(c.peerIdMap, peerId)
             hsvColor == Get(c.peerColorMap, peerId)
             gone == [c EXCEPT !.present = @ \ {peerId}] IN
         IF hsvColor # Undefined
         THEN LET shown == _appendLine(gone, ChatLine("userLeft", peerId, userName, hsvColor, ""))
                  idx == IndexOf(shown.colorsUsed, hsvColor) IN
              [shown EXCEPT !.peerColorMap = Delete(@, peerId),
                            !.colorsUsed = IF idx > 0 THEN Splice(@, idx) ELSE @]
         ELSE [gone EXCEPT !.log = "is not a valid key"]
    ELSE [c EXCEPT !.log = "userLeft invoked without Chat.userName"]

\* addNotification(message).
addNotification(c, message) == _appendLine(c, ChatLine("notification", "", "", "", message))

\* _handleChatCommand(message): ChatCommands.handleCommand(message).
_handleChatCommand(c, message) ==
    [c EXCEPT !.delegated = Append(@, CommandCall("ChatCommands.handleCommand", message, "", ""))]

\* addMessage(peerId, message).
addMessage(c, peerId, message) ==
    IF c.peerId # Null
    THEN LET userName == Get(c.peerIdMap, peerId)
             hsvColor == Get(c.peerColorMap, peerId) IN
         IF hsvColor # Undefined /\ userName # Undefined
         THEN LET asked == _handleChatCommand(c, message) IN
              IF ~IsCommand(message)
              THEN LET content == IF asked.lastPeerIdMessage # peerId
                                  THEN ChatLine("message", peerId, userName, hsvColor, message)
                                  ELSE ChatLine("msgContinue", "", "", "", message) IN
                   [_appendLine(asked, content) EXCEPT !.lastPeerIdMessage = peerId]
              ELSE [asked EXCEPT !.lastCommand = message]
         ELSE [c EXCEPT !.log = "is not a valid key"]
    ELSE [c EXCEPT !.log = "addMessage invoked without Chat.userName"]

\* The text the entry shows while it is idle.
DefaultText == "Type message here..."

\* The keys of a keyup event (e.which): Enter, the up arrow, a letter.
Keys == {13, 38, 65}

\* A call of sendMessageFn({msg: msg}) and the value it returned.
SendCall(msg, ok) == CommandCall("sendMessageFn", msg, "", IF ok THEN "true" ELSE "false")

\* An Enter key that adds the message whatever sendMessageFn returned.
KeyupEnter_AddAlways(c, ok) ==
    LET msg == c.text
        asked == [c EXCEPT !.delegated = Append(@, SendCall(msg, ok))] IN
    [addMessage(asked, asked.peerId, msg) EXCEPT !.text = ""]

\* The keyup handler on Enter, sendMessageFn returning ok: add the message,
\* or log and add a notification; then clear the text entry.
KeyupEnter(c, ok) ==
    LET msg == c.text
        asked == [c EXCEPT !.delegated = Append(@, SendCall(msg, ok))]
        shown == IF ok
                 THEN addMessage(asked, asked.peerId, msg)
                 ELSE addNotification(
                          [asked EXCEPT !.log = "chatTextEntry.click() => failed to send message"],
                          "Failed to send last message") IN
    [shown EXCEPT !.text = ""]

\* The keyup handler on the up arrow: an empty entry gets the last command.
KeyupArrowUp(c) ==
    IF c.text = "" /\ c.lastCommand # Null THEN [c EXCEPT !.text = c.lastCommand] ELSE c

\* The blur handler: an empty entry shows the default text.
Blur(c) == IF c.text = "" THEN [c EXCEPT !.text = DefaultText] ELSE c

\* The focus handler: the default text is cleared.
Focus(c) == IF c.text = DefaultText \/ c.text = "" THEN [c EXCEPT !.text = ""] ELSE c

\* A chat peer message's content as Chat.handlePeerMessage reads it: msgType
\* and cmdType are the results of typeof.
ChatContent(msgType, msg, cmdType, cmd, cmdData) ==
    [msgType |-> msgType, msg |-> msg, cmdType |-> cmdType, cmd |-> cmd, cmdData |-> cmdData]

\* The chat peer messages: a message, a command, both tags at once, neither.
ChatMessages == {ChatContent("string", m, "undefined", "", "") : m \in Messages}
ChatCommandMessages == {ChatContent("undefined", "", "string", "mute", "everyone")}
ChatBoth == {ChatContent("string", "hello", "string", "mute", "everyone")}
ChatNeither == {ChatContent("undefined", "", "undefined", "", ""),
                ChatContent("number", "", "number", "", "everyone")}
ChatInbound ==
    {<<p, c>> : p \in {"B"}, c \in ChatMessages \cup ChatCommandMessages \cup ChatBoth \cup ChatNeither}

\* A dispatch that looks at the command tag first.
ChatBranch_CommandFirst(content) ==
    IF content.cmdType = "string" THEN "cmd"
    ELSE IF content.msgType = "string" THEN "msg"
    ELSE "invalid"

\* The branch Chat.handlePeerMessage takes: typeof content.msg === 'string',
\* else typeof content.cmd === 'string', else neither.
ChatBranch(content) ==
    IF content.msgType = "string" THEN "msg"
    ELSE IF content.cmdType = "string" THEN "cmd"
    ELSE "invalid"

\* The body of Chat.handlePeerMessage(peerId, content).
ChatDispatch(c, peerId, content) ==
    LET branch == ChatBranch(content) IN
    IF branch = "msg" THEN addMessage(c, peerId, content.msg)
    ELSE IF branch = "cmd"
    THEN [c EXCEPT !.delegated = Append(@, CommandCall("ChatCommands.handlePeerMessage",
                                                        content.cmd, peerId, content.cmdData))]
    ELSE [c EXCEPT !.log = "invalid chat peer message"]

\* An event of the Chat that ends in c: the Chat's fields and what the event
\* appended, delegated and logged.  The Chat sends no peer message and does
\* not touch DebugConsole.
ChatEvent(op, peerId, content, c) ==
    /\ chatPeerId' = c.peerId
    /\ _peerIdMap' = c.peerIdMap
    /\ peerColorMap' = c.peerColorMap
    /\ colorsUsed' = c.colorsUsed
    /\ _lastPeerIdMessage' = c.lastPeerIdMessage
    /\ _lastCommand' = c.lastCommand
    /\ appended' = c.appended
    /\ delegated' = c.delegated
    /\ generated' = c.generated
    /\ present' = c.present
    /\ chatTextEntry' = c.text
    /\ sent' = <<>>
    /\ last' = Event(op, peerId, Undefined, content, "undefined", c.log)
    /\ UNCHANGED <<_txid, _transactionMap, roomList, aggs, txlog, calls, done, throws>>
    /\ UNCHANGED navVars

\* Chat.initialize(peerId, userName, sendMessageFn), called once.
initialize(peerId, userName, d) ==
    /\ chatPeerId = Null
    /\ LET bound == [ChatNow EXCEPT !.peerId = peerId]
           welcomed == addNotification(bound, "Welcome! Feel free to use this to communicate.")
           hinted == addNotification(welcomed, "To see a list of chatroom commands, type /help")
           entered == userEntered(hinted, peerId, userName, d)
           ready == [entered EXCEPT !.delegated =
                                        Append(@, CommandCall("ChatCommands.initialize", "", "", "")),
                                    !.text = DefaultText] IN
       ChatEvent("initialize", peerId, NullContent, ready)

\* Chat.userEntered(peerId, userName) as the room calls it.
ChatUserEntered(peerId, d) ==
    ChatEvent("userEntered", peerId, NullContent, userEntered(ChatNow, peerId, UserName(peerId), d))

\* Chat.userLeft(peerId) as the room calls it.
ChatUserLeft(peerId) ==
    ChatEvent("userLeft", peerId, NullContent, userLeft(ChatNow, peerId))

\* Chat.handlePeerMessage(peerId, content).
ChatHandlePeerMessage(peerId, content) ==
    ChatEvent("Chat.handlePeerMessage", peerId, content, ChatDispatch(ChatNow, peerId, content))

\* The keyup handler of the text entry, bound by initialize.
ChatKeyup(which, ok) ==
    /\ chatPeerId # Null
    /\ CASE which = 13 ->
              ChatEvent("keyup:13", Undefined,
                        ChatContent("string", chatTextEntry, "undefined", "", ""),
                        KeyupEnter(ChatNow, ok))
         [] which = 38 -> ChatEvent("keyup:38", Undefined, NullContent, KeyupArrowUp(ChatNow))
         [] OTHER -> ChatEvent("keyup", Undefined, NullContent, ChatNow)

\* The blur and the focus handlers of the text entry, bound by initialize.
ChatBlur ==
    /\ chatPeerId # Null
    /\ ChatEvent("blur", Undefined, NullContent, Blur(ChatNow))

ChatFocus ==
    /\ chatPeerId # Null
    /\ ChatEvent("focus", Undefined, NullContent, Focus(ChatNow))

\* The user edits the text entry, which initialize made editable, to text.
ChatType(text) ==
    /\ chatPeerId # Null
    /\ chatTextEntry # DefaultText
    /\ ChatEvent("type", Undefined, NullContent, [ChatNow EXCEPT !.text = text])

\* The room's calls of the Chat and the chat peer messages, beside the
\* client's probes and their replies.
NextChat ==
    \/ \E d \in Draws(colorsUsed) : initialize(LocalId, UserName(LocalId), d)
    \/ \E p \in OtherPeers, d \in Draws(colorsUsed) : ChatUserEntered(p, d)
    \/ \E p \in OtherPeers : ChatUserLeft(p)
    \/ \E m \in ChatInbound : ChatHandlePeerMessage(m[1], m[2])
    \/ getP2PDiagnosticForPeerId("B", "onResult")
    \/ \E t \in 0..(MaxTxid - 1) : Reply(t)

SpecChat == Init /\ [][NextChat]_vars

\* The chat panel by itself: the room's calls of the Chat, the chat peer
\* messages and the user at the text entry.
NextChatPanel ==
    \/ \E d \in Draws(colorsUsed) : initialize(LocalId, UserName(LocalId), d)
    \/ \E p \in OtherPeers, d \in Draws(colorsUsed) : ChatUserEntered(p, d)
    \/ \E p \in OtherPeers : ChatUserLeft(p)
    \/ \E m \in ChatInbound : ChatHandlePeerMessage(m[1], m[2])
    \/ \E which \in Keys, ok \in BOOLEAN : ChatKeyup(which, ok)
    \/ ChatBlur
    \/ ChatFocus
    \/ \E text \in Messages \cup {""} : ChatType(text)

SpecChatPanel == Init /\ [][NextChatPanel]_vars

\* ------------------------------------------------------- the navigation bar
\* No more than MaxPresses toggles and clicks of one button in one run.
MaxPresses == 3

\* The functions a caller passes to handle() and onClick().
BtnFns == {"fnA", "fnB"}

\* The fields of NavBar holding a StatefulButton.
StatefulNames == {"cameraBtn", "micBtn", "dashBtn"}

\* The element id of the button in field n.
BtnId(n) == <<"#", n>>

\* StatefulButton._paintColor: green when enabled, red otherwise.
_paintColor(b) == [b EXCEPT !.fill = IF b.enabled THEN "#009966" ELSE "#cc0033"]

\* new StatefulButton(id, enabled), args being the arguments after id: the
\* state is the argument, or false when it is omitted.
StatefulButton(id, args) ==
    _paintColor([id |-> id, enabledFn |-> Null, disabledFn |-> Null,
                 enabled |-> IF Len(args) = 0 THEN FALSE ELSE args[1],
                 fill |-> ""])

\* new Button(id).
Button(id) == [id |-> id, clickFn |-> Null, fill |-> "#cccccc"]

\* A toggle that enables the button whatever its state.
Toggle_Enable(b) == _paintColor([b EXCEPT !.enabled = TRUE])

\* StatefulButton.toggle: flip the state and repaint.
toggle(b) == _paintColor([b EXCEPT !.enabled = IF b.enabled THEN FALSE ELSE TRUE])

\* StatefulButton.handle.
handle(b, enabledFn, disabledFn) ==
    [b EXCEPT !.enabledFn = enabledFn, !.disabledFn = disabledFn]

\* StatefulButton.isEnabled.
isEnabled(b) == b.enabled

\* A click handler that picks the callback of the state the button left.
ClickBranch_OldState(b) ==
    IF isEnabled(b) THEN [fn |-> b.disabledFn, name |-> "disabledFn"]
                    ELSE [fn |-> b.enabledFn, name |-> "enabledFn"]

\* The click handler's choice of callback for a button b already toggled.
ClickBranch(b) ==
    IF isEnabled(b) THEN [fn |-> b.enabledFn, name |-> "enabledFn"]
                    ELSE [fn |-> b.disabledFn, name |-> "disabledFn"]

\* The record of a navigation bar event.
NavEvent(op, id, invoked, log) == [op |-> op, id |-> id, invoked |-> invoked, log |-> log]

\* The line a click logs when the callback it needs is null.
NotDefined(id, class, name) == <<id, ".click => ", class, ".", name, " not defined">>

\* NavBar.initialize.
NavBar_initialize ==
    /\ DOMAIN navBar = {}
    /\ navBar' = [n \in StatefulNames \cup {"attrBtn"} |->
                     CASE n = "cameraBtn" -> StatefulButton(BtnId(n), <<TRUE>>)
                       [] n = "micBtn" -> StatefulButton(BtnId(n), <<TRUE>>)
                       [] n = "dashBtn" -> StatefulButton(BtnId(n), <<>>)
                       [] n = "attrBtn" -> Button(BtnId(n))]
    /\ presses' = [n \in StatefulNames |-> [initial |-> isEnabled(navBar'[n]), k |-> 0]]
    /\ navEvent' = NavEvent("initialize", Null, <<>>, <<>>)
    /\ UNCHANGED <<diagVars, chatVars>>

\* A caller toggles the stateful button in field n.
ButtonToggle(n) ==
    /\ n \in DOMAIN navBar
    /\ presses[n].k < MaxPresses
    /\ navBar' = [navBar EXCEPT ![n] = toggle(@)]
    /\ presses' = [presses EXCEPT ![n].k = @ + 1]
    /\ navEvent' = NavEvent("toggle", BtnId(n), <<>>, <<>>)
    /\ UNCHANGED <<diagVars, chatVars>>

\* A caller sets the callbacks of the stateful button in field n.
ButtonHandle(n, enabledFn, disabledFn) ==
    /\ n \in DOMAIN navBar
    /\ navBar' = [navBar EXCEPT ![n] = handle(@, enabledFn, disabledFn)]
    /\ navEvent' = NavEvent("handle", BtnId(n), <<>>, <<>>)
    /\ UNCHANGED <<presses, diagVars, chatVars>>

\* The click handler of the stateful button in field n: toggle, then call
\* the callback of the new state, or log when it is null.
ButtonClick(n) ==
    /\ n \in DOMAIN navBar
    /\ presses[n].k < MaxPresses
    /\ LET b == toggle(navBar[n])
           h == ClickBranch(b)
       IN  /\ navBar' = [navBar EXCEPT ![n] = b]
           /\ navEvent' = IF h.fn # Null
                             THEN NavEvent("click", BtnId(n), <<h.fn>>, <<>>)
                             ELSE NavEvent("click", BtnId(n), <<>>,
                                           <<NotDefined(BtnId(n), "StatefulButton", h.name)>>)
    /\ presses' = [presses EXCEPT ![n].k = @ + 1]
    /\ UNCHANGED <<diagVars, chatVars>>

\* A caller sets the callback of the plain button.
ButtonOnClick(clickFn) ==
    /\ "attrBtn" \in DOMAIN navBar
    /\ navBar' = [navBar EXCEPT !["attrBtn"].clickFn = clickFn]
    /\ navEvent' = NavEvent("onClick", BtnId("attrBtn"), <<>>, <<>>)
    /\ UNCHANGED <<presses, diagVars, chatVars>>

\* The click handler of the plain button.
PlainClick ==
    /\ "attrBtn" \in DOMAIN navBar
    /\ LET b == navBar["attrBtn"]
       IN  navEvent' = IF b.clickFn # Null
                          THEN NavEvent("click", b.id, <<b.clickFn>>, <<>>)
                          ELSE NavEvent("click", b.id, <<>>,
                                        <<NotDefined(b.id, "Button", "clickFn")>>)
    /\ UNCHANGED <<navBar, presses, diagVars, chatVars>>

NextNavBar ==
    \/ NavBar_initialize
    \/ \E n \in StatefulNames : ButtonToggle(n)
    \/ \E n \in StatefulNames, e \in BtnFns, d \in BtnFns : ButtonHandle(n, e, d)
    \/ \E n \in StatefulNames : ButtonClick(n)
    \/ \E f \in BtnFns : ButtonOnClick(f)
    \/ PlainClick

SpecNavBar == Init /\ [][NextNavBar]_vars

\* ------------------------------------------------------------------ claims
\* The ids of the transactions aggregate k issued.
AggTxids(k) == {txlog[i].id : i \in {j \in DOMAIN txlog : txlog[j].cb = AppendCb(k)}}

\* The ids for which a response was resolved to a callback.
Resolved == {calls[i].env.id : i \in DOMAIN calls}

\* The invocations of aggregate k's completionFn.
Fired(k) == {i \in DOMAIN done : done[i].agg = k}

\* The last event handled an inbound message whose content is in set S.
Handled(S) == last.op = "handlePeerMessage" /\ last.content \in S

\* The well-formed responses of any sender.
AllResponses == UNION {Responses(p) : p \in OtherPeers}

\* The status mapping of the reply the last event sent.
ReplyKeys(msgs) == DOMAIN msgs[1].content.data.data

\* C1: with N >= 1 targets, getP2PDiagnostics issued N transactions, and its
\* completionFn has been invoked once if all N have been resolved and not at
\* all otherwise (so never after N-1 replies, and never twice), each time with
\* exactly N entries.
C1_AggregateOnceAfterAll ==
    \A k \in DOMAIN aggs :
        aggs[k].roomSize >= 1 =>
            /\ Cardinality(AggTxids(k)) = aggs[k].roomSize
            /\ Cardinality(Fired(k)) = IF AggTxids(k) \subseteq Resolved THEN 1 ELSE 0
            /\ \A i \in Fired(k) : Len(done[i].arg) = aggs[k].roomSize

\* C1 witness: an aggregate over two peers has completed.
C1_Witness ==
    \E k \in DOMAIN aggs : aggs[k].roomSize = 2 /\ Fired(k) # {}

\* C2: a response resolved to a callback passes the response's payload and
\* removes the registration, and no id is resolved twice.
C2_ResolvedOnceAndRemoved ==
    \A i \in DOMAIN calls :
        /\ calls[i].arg = calls[i].env.data
        /\ calls[i].env.id \notin DOMAIN _transactionMap
        /\ \A j \in DOMAIN calls : calls[j].env.id = calls[i].env.id => j = i

\* C3: every callback invocation is the callback registered under the id the
\* response carried, with the payload that response carried.
C3_CorrelatedById ==
    \A i \in DOMAIN calls :
        /\ calls[i].arg = calls[i].env.data
        /\ \E j \in DOMAIN txlog : txlog[j].id = calls[i].env.id
        /\ \A j \in DOMAIN txlog :
               txlog[j].id = calls[i].env.id => txlog[j].cb = calls[i].cb

\* C3 witness: two probes with different callbacks were answered in the
\* reverse of the order they were issued in, with different payloads.
C3_Witness ==
    /\ Len(calls) = 2
    /\ calls[1].env.id = 1 /\ calls[2].env.id = 0
    /\ calls[1].cb.kind = "user" /\ calls[2].cb.kind = "user"
    /\ calls[1].cb # calls[2].cb
    /\ calls[1].arg # calls[2].arg

\* C4 as stated: the status mapping of a probe reply holds neither the
\* requester nor the local peer.
C4_ExcludesRequesterAndSelf ==
    Handled(Probes) =>
        (last.peerId \notin ReplyKeys(sent) /\ LocalId \notin ReplyKeys(sent))

\* C4 amended: the keys of the status mapping of a probe reply are the room
\* members other than the local peer, so the mapping never holds the local
\* peer and does hold the requester whenever the requester is in the room.
C4_ExcludesSelfOnly ==
    Handled(Probes) =>
        /\ ReplyKeys(sent) = Range(roomList) \ {LocalId}
        /\ last.peerId \in Range(roomList) => last.peerId \in ReplyKeys(sent)

\* C4 witness: a probe was answered in a room of three with a mapping that
\* holds two peers.
C4_Witness ==
    /\ Handled(Probes)
    /\ last.peerId = "B"
    /\ roomList = <<LocalId, "B", "C">>
    /\ Cardinality(ReplyKeys(sent)) = 2

\* C5: the ids returned by _getTxid are strictly increasing, and the counter
\* is above every one of them.
C5_TxidsIncrease ==
    /\ \A i, j \in DOMAIN txlog : i < j => txlog[i].id < txlog[j].id
    /\ \A i \in DOMAIN txlog : txlog[i].id < _txid

\* C5 witness: two ids were issued with a resolution in between.
C5_Witness ==
    /\ Len(txlog) >= 2
    /\ \E i \in DOMAIN calls : calls[i].env.id = 0
    /\ 1 \in DOMAIN _transactionMap

\* C6: a response whose id is not registered invokes no callback, does not
\* raise, and leaves the registry, the counter and the aggregates as they were.
C6_UnknownIdIsNoOp ==
    [][(/\ last'.op = "handlePeerMessage"
        /\ last'.content \in AllResponses
        /\ last'.content.id \notin DOMAIN _transactionMap) =>
          /\ calls' = calls /\ done' = done /\ aggs' = aggs
          /\ _transactionMap' = _transactionMap /\ _txid' = _txid
          /\ last'.ret = "undefined"]_vars

\* C6 witness: a late reply to a resolved transaction was dropped while
\* another transaction was pending.
C6_Witness ==
    /\ Handled(AllResponses)
    /\ last.log = "invalid id"
    /\ last.content.id \in Resolved
    /\ DOMAIN _transactionMap # {}

\* C7: a getP2PDiagnostics call made when the room holds the local peer alone
\* sends nothing and issues no transaction, and the completionFn of an
\* aggregate without targets is never invoked.
C7_EmptyRoomNeverCompletes ==
    /\ (last.op = "getP2PDiagnostics" /\ last.ret = "undefined" /\ roomList = <<LocalId>>) =>
           (sent = <<>> /\ AggTxids(Len(aggs)) = {} /\ aggs[Len(aggs)].roomSize = 0)
    /\ \A k \in DOMAIN aggs :
           aggs[k].roomSize = 0 => (Fired(k) = {} /\ AggTxids(k) = {})

\* C7 witness: after a call in an empty room, peers joined and responses
\* were processed.
C7_Witness ==
    /\ \E k \in DOMAIN aggs : aggs[k].roomSize = 0
    /\ Len(roomList) = 3
    /\ calls # <<>>

\* C8: an entry point called without a required argument returns false and
\* allocates, registers and sends nothing.
C8_MissingArgumentFails ==
    [][(\/ /\ last'.op = "getP2PDiagnosticForPeerId"
           /\ last'.peerId = Undefined \/ last'.fn = Undefined
        \/ /\ last'.op = "getP2PDiagnostics"
           /\ last'.fn = Undefined) =>
          /\ last'.ret = "false"
          /\ sent' = <<>>
          /\ _txid' = _txid /\ _transactionMap' = _transactionMap
          /\ txlog' = txlog /\ aggs' = aggs]_vars

\* C8 witness: a call failed while a transaction was pending.
C8_Witness ==
    /\ last.op = "getP2PDiagnosticForPeerId"
    /\ last.peerId = Undefined /\ last.fn # Undefined
    /\ last.ret = "false"
    /\ DOMAIN _transactionMap # {}

\* C9: a probe causes exactly one message to be sent: a response addressed to
\* the probe's sender, with the probe's id and the local peer as myPeerId.
C9_ProbeAnsweredOnce ==
    Handled(Probes) =>
        /\ Len(sent) = 1
        /\ sent[1].rtcId = last.peerId
        /\ sent[1].content.opType = "string"
        /\ sent[1].content.opcode = "response"
        /\ sent[1].content.idType = "number"
        /\ sent[1].content.id = last.content.id
        /\ sent[1].content.hasData
        /\ sent[1].content.data.myPeerId = LocalId

\* C9 witness: a probe with a non-zero id was answered to C.
C9_Witness ==
    /\ Handled(Probes)
    /\ last.peerId = "C"
    /\ last.content.id = MaxTxid
    /\ Len(sent) = 1

\* C10: an absent or malformed content is only logged: the dispatcher does
\* not raise, invokes no callback, sends nothing and leaves the registry and
\* the counter as they were.
C10_MalformedOnlyLogged ==
    [][(/\ last'.op = "handlePeerMessage"
        /\ last'.content \in {NullContent} \cup Malformed) =>
          /\ last'.ret = "undefined"
          /\ last'.log # ""
          /\ sent' = <<>>
          /\ calls' = calls /\ done' = done
          /\ _transactionMap' = _transactionMap /\ _txid' = _txid]_vars

\* C11: every probe was handed to the transport with its id already in the
\* registry, and the id of every probe sent is registered or resolved.
C11_RegisteredBeforeSent ==
    \A i \in DOMAIN txlog :
        /\ txlog[i].registeredAtSend
        /\ txlog[i].id \in DOMAIN _transactionMap \/ txlog[i].id \in Resolved

\* C12: over a reliable transport, an aggregate over N >= 1 peers eventually
\* invokes its completionFn, with every transaction it registered removed
\* from the registry.
C12_AggregateEventuallyCompletes ==
    \A k \in 1..MaxAggs :
        (k \in DOMAIN aggs /\ aggs[k].roomSize >= 1)
            ~> (/\ Fired(k) # {}
                /\ AggTxids(k) \cap DOMAIN _transactionMap = {})

\* C13: a transaction leaves the registry, and a callback is invoked, only in
\* the processing of a response that carries the transaction's id; and an
\* aggregate's completionFn has only been invoked when a response was resolved
\* for every one of its transactions, with all the payloads.
C13_OnlyAResponseResolves ==
    /\ [](\A k \in DOMAIN aggs :
            Fired(k) # {} =>
                /\ AggTxids(k) \subseteq Resolved
                /\ \A i \in Fired(k) : Len(done[i].arg) = aggs[k].roomSize)
    /\ [][/\ \A t \in DOMAIN _transactionMap :
                t \notin DOMAIN _transactionMap' =>
                    /\ last'.op = "handlePeerMessage"
                    /\ last'.content \in AllResponses
                    /\ last'.content.id = t
          /\ (calls' # calls \/ done' # done) =>
                    /\ last'.op = "handlePeerMessage"
                    /\ last'.content \in AllResponses
                    /\ Len(calls') = Len(calls) + 1
                    /\ calls'[Len(calls')].env.id = last'.content.id
                    /\ last'.content.id \in DOMAIN _transactionMap]_vars

\* C13 witness: of an aggregate over two peers one reply has been processed,
\* the other transaction is still pending after a peer left the room, and the
\* completionFn has not been invoked.
C13_Witness ==
    /\ last.op = "roomLeave"
    /\ \E k \in DOMAIN aggs :
          /\ aggs[k].roomSize = 2
          /\ Cardinality(AggTxids(k) \cap Resolved) = 1
          /\ Cardinality(AggTxids(k) \cap DOMAIN _transactionMap) = 1
          /\ Fired(k) = {}

\* C14: the keys of the status mapping of a probe reply are members of the
\* room as it is when the probe is handled, and each value is what
\* getConnectStatus returns for its key.
C14_KeysAreRoomMembers ==
    Handled(Probes) =>
        /\ ReplyKeys(sent) \subseteq Range(roomList)
        /\ \A q \in ReplyKeys(sent) :
               sent[1].content.data.data[q] = getConnectStatus(q)

\* C14 witness: a probe from a peer that is not in the room was answered
\* with the status of the only other member.
C14_Witness ==
    /\ Handled(Probes)
    /\ last.peerId = "C"
    /\ roomList = <<LocalId, "B">>
    /\ ReplyKeys(sent) = {"B"}
    /\ sent[1].content.data.data["B"] = "is connected"

\* The invocations of aggregate k's appendDataFn.
AggCalls(k) == {i \in DOMAIN calls : calls[i].cb = AppendCb(k)}

\* Every reply resolved for aggregate k came from the peer the probe was sent
\* to and carries that peer's id.
FromProbedPeers(k) ==
    \A i \in AggCalls(k) :
        /\ calls[i].peer = ProbePeer(calls[i].env.id)
        /\ calls[i].arg.myPeerId = calls[i].peer

\* C15: when every reply came from the peer that was probed, the aggregate
\* handed to completionFn holds one entry for each member of the room, as read
\* at the call, other than the local peer: none missing, none twice.
C15_OneEntryPerTarget ==
    \A i \in DOMAIN done :
        FromProbedPeers(done[i].agg) =>
            LET arg == done[i].arg
                room == aggs[done[i].agg].roomAtCall IN
            /\ {arg[j].myPeerId : j \in DOMAIN arg} = Range(room) \ {LocalId}
            /\ \A j1, j2 \in DOMAIN arg : arg[j1].myPeerId = arg[j2].myPeerId => j1 = j2

\* C15 witness: an aggregate over two peers has completed from the replies of
\* the probed peers, and a second delivery of one of them has been dropped.
C15_Witness ==
    /\ Handled(AllResponses)
    /\ last.log = "invalid id"
    /\ \E k \in DOMAIN aggs :
          /\ aggs[k].roomSize = 2
          /\ Fired(k) # {}
          /\ FromProbedPeers(k)
          /\ last.content.id \in AggTxids(k)
          /\ last.peerId = ProbePeer(last.content.id)

\* C16: once the processing of a response that invoked the callback registered
\* for id t has ended, whether the callback returned or raised, t is not
\* registered, and no callback is invoked twice for one id.
C16_RemovedEvenWhenCallbackRaises ==
    /\ (Handled(AllResponses) /\ last.log # "invalid id") =>
           last.content.id \notin DOMAIN _transactionMap
    /\ \A i, j \in DOMAIN calls :
           (calls[i].env.id = calls[j].env.id /\ calls[i].cb = calls[j].cb) => i = j

\* The last event was Chat.handlePeerMessage on a content in set S.
ChatHandled(S) == last.op = "Chat.handlePeerMessage" /\ last.content \in S

\* The calls of ChatCommands.handlePeerMessage the last event made.
CommandsHanded == SelectSeq(delegated, LAMBDA call : call.callee = "ChatCommands.handlePeerMessage")

\* C17: a chat peer message with a command tag and no message is handed to
\* ChatCommands.handlePeerMessage with the command, the sender and cmdData; a
\* string msg takes precedence over cmd; a message with neither is logged and
\* dropped; and Chat.handlePeerMessage allocates, registers and resolves no
\* transaction and sends no peer message.
C17_CommandsAreDelegated ==
    /\ [](/\ ChatHandled(ChatCommandMessages) =>
               /\ delegated = <<CommandCall("ChatCommands.handlePeerMessage", last.content.cmd,
                                            last.peerId, last.content.cmdData)>>
               /\ appended = <<>>
               /\ last.log = ""
          /\ ChatHandled(ChatBoth) =>
               /\ CommandsHanded = <<>>
               /\ last.log # "invalid chat peer message"
               /\ (last.peerId \in DOMAIN peerColorMap /\ last.peerId \in DOMAIN _peerIdMap) =>
                      /\ Len(appended) = 1
                      /\ appended[1].msg = last.content.msg
          /\ ChatHandled(ChatNeither) =>
               /\ delegated = <<>>
               /\ appended = <<>>
               /\ last.log = "invalid chat peer message")
    /\ [][last'.op = "Chat.handlePeerMessage" =>
            /\ _txid' = _txid
            /\ _transactionMap' = _transactionMap
            /\ txlog' = txlog /\ calls' = calls /\ done' = done /\ aggs' = aggs
            /\ sent' = <<>>
            /\ (last'.content \in ChatNeither \cup ChatCommandMessages) =>
                   UNCHANGED <<chatPeerId, _peerIdMap, peerColorMap, colorsUsed,
                               _lastPeerIdMessage, _lastCommand>>]_vars

\* C17 witness: a command from a peer was delegated on an initialized Chat
\* while a transaction was pending.
C17_Witness ==
    /\ ChatHandled(ChatCommandMessages)
    /\ Len(CommandsHanded) = 1
    /\ chatPeerId = LocalId
    /\ DOMAIN _transactionMap # {}

\* C18: every registered id was allocated (it is below the counter and in the
\* log of issued transactions), and no id was registered twice.
C18_RegistryWellFormed ==
    /\ \A t \in DOMAIN _transactionMap :
           /\ t < _txid
           /\ \E i \in DOMAIN txlog : txlog[i].id = t
    /\ \A i, j \in DOMAIN txlog : txlog[i].id = txlog[j].id => i = j

\* C18 witness: after two registrations and a resolved response, one id is
\* left in the registry.
C18_Witness ==
    /\ last.op = "handlePeerMessage"
    /\ Len(txlog) = 2
    /\ _txid = 2
    /\ DOMAIN _transactionMap = {1}
    /\ 0 \in Resolved

\* C19: every response that was resolved to a callback was sent by the peer
\* the transaction's probe was sent to.
C19_ResolvedOnlyByProbedPeer ==
    \A i \in DOMAIN calls : calls[i].peer = ProbePeer(calls[i].env.id)

\* The payloads of the responses resolved for aggregate k's transactions, in
\* the order they were processed.
AggPayloads(k) ==
    LET own == SelectSeq(calls, LAMBDA call : call.env.id \in AggTxids(k)) IN
    [i \in 1..Len(own) |-> own[i].arg]

\* C20: whatever other calls are in flight, the completionFn of every
\* getP2PDiagnostics call over N >= 1 peers is invoked once when its own N
\* transactions are resolved and not before, with exactly the payloads of the
\* responses to its own probes; and a function passed to
\* getP2PDiagnosticForPeerId is never invoked for an aggregate's transaction.
C20_OverlappingCallsAreSeparate ==
    /\ \A k \in DOMAIN aggs :
           aggs[k].roomSize >= 1 =>
               /\ Cardinality(Fired(k)) = IF AggTxids(k) \subseteq Resolved THEN 1 ELSE 0
               /\ \A i \in Fired(k) :
                      /\ done[i].fn = aggs[k].completionFn
                      /\ done[i].arg = SubSeq(AggPayloads(k), 1, aggs[k].roomSize)
               /\ aggs[k].results = AggPayloads(k)
    /\ \A k1, k2 \in DOMAIN aggs : k1 # k2 => AggTxids(k1) \cap AggTxids(k2) = {}
    /\ \A i \in DOMAIN calls :
           calls[i].cb.kind = "user" =>
               \A k \in DOMAIN aggs : calls[i].env.id \notin AggTxids(k)

\* C20 witness: two aggregates were in flight at once, the second one's reply
\* was processed first, and each completionFn was invoked with its own
\* payload.
C20_Witness ==
    /\ Len(aggs) = 2
    /\ Fired(1) # {} /\ Fired(2) # {}
    /\ Len(calls) = 2
    /\ calls[1].env.id \in AggTxids(2)
    /\ calls[2].env.id \in AggTxids(1)
    /\ done[1].agg = 2 /\ done[2].agg = 1
    /\ done[1].arg # done[2].arg

\* C21: handling a probe sends one reply and leaves the registry and the
\* counter as they were; handling a response sends nothing and adds, removes
\* or changes no registration other than the one of the response's id; and
\* neither changes the room's membership or the counter.
C21_DispatcherPathsAreDisjoint ==
    [][/\ (last'.op = "handlePeerMessage" /\ last'.content \in Probes) =>
            /\ _transactionMap' = _transactionMap
            /\ _txid' = _txid
            /\ roomList' = roomList
            /\ Len(sent') = 1
       /\ (last'.op = "handlePeerMessage" /\ last'.content \in AllResponses) =>
            /\ sent' = <<>>
            /\ _txid' = _txid
            /\ roomList' = roomList
            /\ DOMAIN _transactionMap' \subseteq DOMAIN _transactionMap
            /\ \A t \in DOMAIN _transactionMap \ {last'.content.id} :
                   /\ t \in DOMAIN _transactionMap'
                   /\ _transactionMap'[t] = _transactionMap[t]]_vars

\* C21 witness: the response to the younger of two pending transactions was
\* resolved in a room of three, and the older one is still registered.
C21_Witness ==
    /\ Handled(AllResponses)
    /\ last.content.id = 1
    /\ last.log = ""
    /\ DOMAIN _transactionMap = {0}
    /\ Len(roomList) = 3

\* C22: a click on a stateful button flips its state once and then invokes
\* exactly one callback, enabledFn when the new state is enabled and
\* disabledFn when it is disabled; when that callback is still null, none is
\* invoked, one line is logged, and the state is flipped all the same.
C22_ClickInvokesHandlerOfNewState ==
    [][\A n \in StatefulNames :
          (navEvent'.op = "click" /\ navEvent'.id = BtnId(n)) =>
              /\ navBar'[n].enabled = ~navBar[n].enabled
              /\ LET fn == IF navBar'[n].enabled THEN navBar[n].enabledFn
                                                 ELSE navBar[n].disabledFn
                 IN  IF fn = Null
                       THEN navEvent'.invoked = <<>> /\ Len(navEvent'.log) = 1
                       ELSE navEvent'.invoked = <<fn>> /\ navEvent'.log = <<>>]_vars

\* C22 witness: a click disabled the camera button and invoked its
\* disabledFn, which differs from its enabledFn.
C22_Witness ==
    /\ navEvent.op = "click"
    /\ navEvent.id = BtnId("cameraBtn")
    /\ ~navBar["cameraBtn"].enabled
    /\ navBar["cameraBtn"].enabledFn = "fnA"
    /\ navEvent.invoked = <<"fnB">>

\* C23: after k toggles and clicks a stateful button is in its initial state
\* when k is even and in the other state when k is odd; the camera and the
\* microphone buttons start enabled, the dashboard button starts disabled.
C23_ToggleIsAnInvolution ==
    \A n \in DOMAIN presses :
        /\ presses[n].initial = (n \in {"cameraBtn", "micBtn"})
        /\ isEnabled(navBar[n]) = IF presses[n].k % 2 = 0 THEN presses[n].initial
                                                          ELSE ~presses[n].initial

\* C23 witness: the dashboard button was toggled or clicked twice, the
\* camera button three times.
C23_Witness ==
    /\ DOMAIN presses # {}
    /\ presses["dashBtn"].k = 2
    /\ presses["cameraBtn"].k = 3
    /\ navEvent.op = "toggle"

\* The colors held by the peers of peerColorMap.
ColorsHeld == {peerColorMap[p] : p \in DOMAIN peerColorMap}

\* C24: no two distinct peers of peerColorMap hold the same color.
C24_ColorsAreUniquePerPeer ==
    \A p, q \in DOMAIN peerColorMap : p # q => peerColorMap[p] # peerColorMap[q]

\* C24 witness: a peer entered a room whose other two peers hold colors and
\* got a color of its own after a draw that collided.
C24_Witness ==
    /\ last.op = "userEntered"
    /\ DOMAIN peerColorMap = Peers
    /\ Len(generated) = 1
    /\ generated[1].ret # Black
    /\ generated[1].tries < Tries

\* C25: a call of _generateUniqueColor makes no more than 6 draws; it returns
\* black only if the draw it stopped on, like every draw before it, is a
\* color in use; and when the draw it stopped on is not in use, it returns
\* that color and records it for the peer in peerColorMap and in colorsUsed.
C25_BlackOnlyWhenNoDrawWasUnique ==
    [][\A i \in DOMAIN generated' :
          LET g == generated'[i] IN
          /\ Tries - g.tries + 1 <= 6
          /\ g.ret = Black => g.hsvColor \in Range(colorsUsed)
          /\ g.hsvColor \notin Range(colorsUsed) =>
                 /\ g.ret = g.hsvColor
                 /\ Get(peerColorMap', g.peerId) = g.hsvColor
                 /\ g.hsvColor \in Range(colorsUsed')]_vars

\* The peer and the text of the message the last event called addMessage
\* with, or no such call.
AddMessageCalls ==
    IF last.op = "Chat.handlePeerMessage" /\ ChatBranch(last.content) = "msg"
    THEN {[peerId |-> last.peerId, message |-> last.content.msg]}
    ELSE IF last.op = "keyup:13" /\ delegated[1] = SendCall(last.content.msg, TRUE)
    THEN {[peerId |-> chatPeerId, message |-> last.content.msg]}
    ELSE {}

\* The message lines among the lines the last event appended.
MessageLines == SelectSeq(appended, LAMBDA line : line.tmpl \in {"message", "msgContinue"})

\* C26: addMessage(p, m) for a peer p that entered and has not left, and a
\* message m that is not a chat command, appends exactly one message line,
\* with m, and does not log that p is not a valid key.
C26_PresentPeersMessagesAreShown ==
    \A call \in AddMessageCalls :
        (call.peerId \in present /\ ~IsCommand(call.message)) =>
            /\ Len(MessageLines) = 1
            /\ MessageLines[1].msg = call.message
            /\ last.log # "is not a valid key"

\* C27: colorsUsed holds exactly the colors held by the peers of
\* peerColorMap, each once.
C27_ColorsUsedAreColorsHeld ==
    /\ Range(colorsUsed) = ColorsHeld
    /\ \A i, j \in DOMAIN colorsUsed : colorsUsed[i] = colorsUsed[j] => i = j

\* C28: on the Enter key sendMessageFn is called with the text of the entry;
\* a message line is appended only if it returned true, and then it is the
\* line of that text; when it returned false the one line appended is the
\* notification 'Failed to send last message'; the entry is cleared either way.
C28_EnterAddsOnlyWhatWasSent ==
    [][last'.op = "keyup:13" =>
          LET msg == chatTextEntry
              ok == delegated'[1].cmdData = "true"
              lines == SelectSeq(appended', LAMBDA line : line.tmpl \in {"message", "msgContinue"})
          IN  /\ delegated'[1] \in {SendCall(msg, TRUE), SendCall(msg, FALSE)}
              /\ chatTextEntry' = ""
              /\ lines # <<>> => ok
              /\ (ok /\ ~IsCommand(msg)) => (Len(lines) = 1 /\ lines[1].msg = msg)
              /\ ~ok => appended' = <<ChatLine("notification", "", "", "",
                                                "Failed to send last message")>>]_vars

\* C28 witness: Enter on a typed message that sendMessageFn refused.
C28_Witness ==
    /\ last.op = "keyup:13"
    /\ last.content.msg = "hello"
    /\ delegated = <<SendCall("hello", FALSE)>>
    /\ Len(appended) = 1
    /\ chatTextEntry = ""

====
